---- MODULE Spec2Model ----
(***************************************************************************)
(* Accounts, channel membership, ownership succession, direct-message      *)
(* conversation identity, and the creation, listing, deletion and search   *)
(* of messages of the team chat server, modelled over the relational       *)
(* tables the handlers read and write.                                     *)
(*                                                                         *)
(* Every handler is a sequence of SQL statements issued one await at a     *)
(* time with no transaction around them.  Each statement is an operator    *)
(* over the tables; the whole-call actions (Spec, SpecDM, SpecLogin,       *)
(* SpecCreateMessage, SpecChannelMessages, SpecDeleteMessage, SpecSearch,  *)
(* SpecSearchLimit, SpecGetMessages, SpecChannels, SpecLeaveCascade,       *)
(* SpecReplies, SpecAuthority) apply the statements of one call back to    *)
(* back, the statement-level actions (SpecCreate, SpecJoin, SpecLeave,     *)
(* SpecConversation, SpecDeleteRace, SpecLeaveJoin) let the calls of       *)
(* several requests interleave between statements.                         *)
(***************************************************************************)
EXTENDS Integers, FiniteSets, Sequences, TLC

\* ---------------------------------------------------------------- bounds
MaxUsers == 3
MaxChannels == 1
MaxMemberships == 3
MaxConversations == 2
MaxMessages == 2
MaxAttachments == 2
NumRequests == 2

UserIds == 1..MaxUsers
ChannelIds == 1..MaxChannels
Requests == 1..NumRequests
MessageIds == 1..MaxMessages

\* message contents, as sequences of characters
Contents == {<<"O", "k">>}

\* memberRoleEnum
MemberRoles == {"owner", "admin", "member"}
\* channelMembershipInputSchema.role is optional: "undefined" is the absent role
RoleInputs == MemberRoles \cup {"undefined"}

VARIABLES
    users,                  \* usersTable: ids of the user rows
    userRows,               \* usersTable: the columns loginUser reads and writes,
                            \*   rows [id, email, password_hash, status, updated_at]
    channels,               \* channelsTable: rows [id, created_by, is_private]
    memberships,            \* channelMembershipsTable: rows [id, channel_id, user_id, role, joined_at]
    conversations,          \* directMessageConversationsTable: rows [id, user1_id, user2_id]
    messages,               \* messagesTable: rows [id, content, sender_id, channel_id,
                            \*   direct_message_recipient_id, reply_to_message_id, created_at]
    attachments,            \* fileAttachmentsTable: rows [id, message_id]
    nextUserId,             \* serial sequences of the four tables
    nextChannelId,
    nextMembershipId,
    nextConversationId,
    nextMessageId,
    nextAttachmentId,
    resp,                   \* the call that ran last as a whole, with its result
    req                     \* per request slot: the call in flight and its locals

vars == <<users, userRows, channels, memberships, conversations, messages, attachments,
          nextUserId, nextChannelId, nextMembershipId, nextConversationId,
          nextMessageId, nextAttachmentId, resp, req>>

tables == <<users, channels, memberships, conversations>>
sequences == <<nextUserId, nextChannelId, nextMembershipId, nextConversationId>>
\* the message and attachment tables with their serial sequences
messageTables == <<messages, attachments, nextMessageId, nextAttachmentId>>

\* ------------------------------------------------------------ statements
\* db.select().from(usersTable).where(eq(usersTable.id, id))
selectUser(us, id) == {u \in us : u = id}

\* db.select().from(channelsTable).where(eq(channelsTable.id, id))
selectChannel(chs, id) == {c \in chs : c.id = id}

\* mutant: the lookup filters on the channel alone
selectMembership_ByChannelOnly(mems, c, u) == {m \in mems : m.channel_id = c}

\* db.select().from(channelMembershipsTable).where(and(eq(channel_id), eq(user_id)))
selectMembership(mems, c, u) == {m \in mems : m.channel_id = c /\ m.user_id = u}

\* db.select().from(channelMembershipsTable).where(eq(channel_id))
selectChannelMemberships(mems, c) == {m \in mems : m.channel_id = c}

\* input.role || 'member'
roleOrDefault(role) == IF role = "undefined" THEN "member" ELSE role

\* joined_at: timestamp('joined_at').defaultNow(): the time of the insert, a
\* logical clock that advances with every membership insert
now(membershipSeq) == membershipSeq

\* the row db.insert(channelMembershipsTable).values({...}).returning() stores
newMembership(id, c, u, role, at) ==
    [id |-> id, channel_id |-> c, user_id |-> u, role |-> role, joined_at |-> at]

\* references(() => channelsTable.id) and references(() => usersTable.id)
membershipForeignKeysHold(chs, us, c, u) ==
    selectChannel(chs, c) # {} /\ selectUser(us, u) # {}

\* otherMembers.filter(m => m.user_id !== input.user_id)
remainingMembers(rows, u) == {m \in rows : m.user_id # u}

\* mutant: no preference for admins
newOwnerCandidates_NoAdminPreference(remaining) == remaining

\* adminMembers.length > 0 ? adminMembers[0] : remainingMembers[0]
\* the select has no ORDER BY, so element 0 is any row of the list
newOwnerCandidates(remaining) ==
    LET adminMembers == {m \in remaining : m.role = "admin"}
    IN  IF adminMembers # {} THEN adminMembers ELSE remaining

\* mutant: the UPDATE has no where clause on the row id
updateRoleToOwner_NoWhere(mems, rowId) == {[m EXCEPT !.role = "owner"] : m \in mems}

\* db.update(channelMembershipsTable).set({ role: 'owner' }).where(eq(id, rowId))
updateRoleToOwner(mems, rowId) ==
    {IF m.id = rowId THEN [m EXCEPT !.role = "owner"] ELSE m : m \in mems}

\* mutant: the DELETE filters on the channel alone
deleteMembership_WholeChannel(mems, c, u) == mems \ selectChannelMemberships(mems, c)

\* db.delete(channelMembershipsTable).where(and(eq(channel_id), eq(user_id)))
deleteMembership(mems, c, u) == mems \ selectMembership(mems, c, u)

\* mutant: the DELETE compares the wrong column
deleteChannel_WrongColumn(chs, c) == {x \in chs : x.created_by # c}

\* db.delete(channelsTable).where(eq(channelsTable.id, c))
deleteChannel(chs, c) == chs \ selectChannel(chs, c)

\* onDelete: 'cascade' of channel_memberships.channel_id
cascadeMemberships(mems, c) == mems \ selectChannelMemberships(mems, c)

\* mutant: the lookup tries the caller's order only
selectConversation_SameOrderOnly(convs, a, b) ==
    {cv \in convs : cv.user1_id = a /\ cv.user2_id = b}

\* or(and(user1 = a, user2 = b), and(user1 = b, user2 = a))
selectConversation(convs, a, b) ==
    {cv \in convs : \/ (cv.user1_id = a /\ cv.user2_id = b)
                    \/ (cv.user1_id = b /\ cv.user2_id = a)}

\* db.select().from(usersTable).where(or(eq(id, a), eq(id, b)))
selectUsersEither(us, a, b) == {u \in us : u = a \/ u = b}

\* input.user1_id === input.user2_id ? 1 : 2
expectedUserCount(a, b) == IF a = b THEN 1 ELSE 2

\* -------------------------------------------------------- user statements
\* email addresses: the address of the n-th mailbox
emailOf(n) == <<"user", n, "@example.com">>

\* registerUserInputSchema.password: z.string().min(6)
RegisterPasswords == {"secret", "hunter2"}
DefaultPassword == "secret"

\* hashPassword: the hex SHA-256 digest of password + 'salt_for_demo', one
\* digest per password
hashPassword(password) == <<"sha256", password, "salt_for_demo">>

\* the row db.insert(usersTable).values({..., status: 'offline'}).returning()
\* stores; updated_at counts the writes of the row, 0 at the insert
newUser(id, email, password) ==
    [id |-> id, email |-> email, password_hash |-> hashPassword(password),
     status |-> "offline", updated_at |-> 0]

\* db.select().from(usersTable).where(eq(usersTable.email, email))
selectUserByEmail(rows, email) == {r \in rows : r.email = email}

\* ----------------------------------------------------- message statements
\* null and undefined of an optional input field or a nullable column
Null == -1

\* JavaScript truthiness of a number | null | undefined, as tested by
\* `if (input.channel_id)` and `!input.channel_id`: 0 is falsy like null
truthy(x) == x # Null /\ x # 0

\* input.channel_id || null
orNull(x) == IF truthy(x) THEN x ELSE Null

\* db.select().from(messagesTable).where(eq(messagesTable.id, id))
selectMessage(msgs, id) == {m \in msgs : m.id = id}

\* the row db.insert(messagesTable).values({...}).returning() stores
\* (message_type is stored as given and read by no handler)
newMessage(id, content, senderId, c, r, reply, at) ==
    [id |-> id, content |-> content, sender_id |-> senderId, channel_id |-> orNull(c),
     direct_message_recipient_id |-> orNull(r), reply_to_message_id |-> orNull(reply),
     created_at |-> at]

\* mutant: the reply check accepts the sender's own direction for any recipient
isValidDMReply_AnyRecipient(original, senderId, r) ==
    \/ original.sender_id = senderId
    \/ (original.sender_id = r /\ original.direct_message_recipient_id = senderId)

\* (original.sender_id === senderId && original.recipient === input.recipient) ||
\* (original.sender_id === input.recipient && original.recipient === senderId)
isValidDMReply(original, senderId, r) ==
    \/ (original.sender_id = senderId /\ original.direct_message_recipient_id = r)
    \/ (original.sender_id = r /\ original.direct_message_recipient_id = senderId)

\* mutant: every membership row gives the permission
hasModeratorRole_AnyRole(membership) == membership.role \in MemberRoles

\* membership.role === 'owner' || membership.role === 'admin'
hasModeratorRole(membership) == membership.role = "owner" \/ membership.role = "admin"

\* db.delete(messagesTable).where(eq(messagesTable.id, id))
deleteMessageRow(msgs, id) == msgs \ selectMessage(msgs, id)

\* mutant: the messages of a deleted channel stay
cascadeMessages_NoCascade(msgs, c) == msgs

\* onDelete: 'cascade' of messages.channel_id
cascadeMessages(msgs, c) == {m \in msgs : m.channel_id # c}

\* mutant: the attachments do not follow their message
cascadeAttachments_NoCascade(atts, msgs) == atts

\* onDelete: 'cascade' of file_attachments.message_id: the attachments left
\* once the message table is msgs
cascadeAttachments(atts, msgs) == {a \in atts : selectMessage(msgs, a.message_id) # {}}

\* ------------------------------------------------------ search statements
\* search strings, as sequences of characters
Queries == {<<>>, <<" ">>, <<" ", "K">>, <<"x">>, <<"%">>}

\* String.prototype.trim over the characters above
RECURSIVE trimStart(_)
trimStart(s) == IF s # <<>> /\ Head(s) = " " THEN trimStart(Tail(s)) ELSE s
RECURSIVE trimEnd(_)
trimEnd(s) == IF s # <<>> /\ s[Len(s)] = " " THEN trimEnd(SubSeq(s, 1, Len(s) - 1)) ELSE s
trim(s) == trimEnd(trimStart(s))

\* the case folding of ILIKE over the characters above
lower(ch) == CASE ch = "O" -> "o" [] ch = "K" -> "k" [] OTHER -> ch

\* SQL LIKE: % matches any run of characters, _ any one character
RECURSIVE like(_, _)
like(text, pattern) ==
    IF pattern = <<>> THEN text = <<>>
    ELSE IF Head(pattern) = "%"
         THEN like(text, Tail(pattern)) \/ (text # <<>> /\ like(Tail(text), pattern))
    ELSE /\ text # <<>>
         /\ (Head(pattern) = "_" \/ lower(Head(pattern)) = lower(Head(text)))
         /\ like(Tail(text), Tail(pattern))

\* ilike(messagesTable.content, `%${searchQuery.trim()}%`)
ilike(content, searchQuery) == like(content, <<"%">> \o trim(searchQuery) \o <<"%">>)

\* .orderBy(messagesTable.created_at): the rows as a list, oldest first
RECURSIVE orderByCreatedAt(_)
orderByCreatedAt(rows) ==
    IF rows = {} THEN <<>>
    ELSE LET first == CHOOSE m \in rows : \A n \in rows : m.created_at <= n.created_at
         IN  <<first>> \o orderByCreatedAt(rows \ {first})

\* .limit(n) and .slice(0, n)
limit(list, n) == SubSeq(list, 1, IF Len(list) < n THEN Len(list) ELSE n)
ChannelSearchLimit == 50
PartSearchLimit == 25
TotalSearchLimit == 50

\* mutant: the membership of the searching user is not looked at
channelAccess_NoCheck(mems, c, u) == TRUE

\* the membership select of the channel search and `membership.length === 0`
channelAccess(mems, c, u) == selectMembership(mems, c, u) # {}

\* ------------------------------------------------------------------ Init
\* no row
NoRow == [id |-> 0, channel_id |-> 0, user_id |-> 0, role |-> "none", joined_at |-> 0]

\* no message row
NoMessage == [id |-> 0, content |-> <<>>, sender_id |-> 0, channel_id |-> Null,
              direct_message_recipient_id |-> Null, reply_to_message_id |-> Null,
              created_at |-> 0]

\* a request slot with no call in flight; target is the row id a call picked,
\* hit the number of rows its last UPDATE or DELETE matched
Idle == [op |-> "idle", pc |-> "idle", channel_id |-> 0, user_id |-> 0,
         role |-> "undefined", target |-> 0, hit |-> 0, status |-> "none",
         user2_id |-> 0, message |-> NoMessage]

Init ==
    /\ users = {}
    /\ userRows = {}
    /\ channels = {}
    /\ memberships = {}
    /\ conversations = {}
    /\ nextUserId = 1
    /\ nextChannelId = 1
    /\ nextMembershipId = 1
    /\ nextConversationId = 1
    /\ messages = {}
    /\ attachments = {}
    /\ nextMessageId = 1
    /\ nextAttachmentId = 1
    /\ resp = [op |-> "none"]
    /\ req = [p \in Requests |-> Idle]

\* ------------------------------------------------------ whole-call actions
\* registerUser(input): the pre-check on the email, then the insert under the
\* next serial id (the username of a request is fresh: the username half of
\* the pre-check is not tracked)
registerUser(email, password) ==
    IF selectUserByEmail(userRows, email) # {}
    THEN /\ resp' = [op |-> "registerUser", status |-> "DuplicateEmail", id |-> 0]
         /\ UNCHANGED <<tables, sequences, req, messageTables, userRows>>
    ELSE /\ nextUserId <= MaxUsers
         /\ users' = users \cup {nextUserId}
         /\ userRows' = userRows \cup {newUser(nextUserId, email, password)}
         /\ nextUserId' = nextUserId + 1
         /\ resp' = [op |-> "registerUser", status |-> "ok", id |-> nextUserId]
         /\ UNCHANGED <<channels, memberships, conversations, nextChannelId,
                        nextMembershipId, nextConversationId, req, messageTables>>

\* the row db.insert(channelsTable).values({...}).returning() stores
newChannel(id, creatorId, isPrivate) ==
    [id |-> id, created_by |-> creatorId, is_private |-> isPrivate]

\* createChannel(input, creatorId); the callers bound the serial id of the
\* channel
createChannel(creatorId, isPrivate) ==
    IF selectUser(users, creatorId) = {}
    THEN /\ resp' = [op |-> "createChannel", creatorId |-> creatorId,
                     status |-> "CreatorNotFound", id |-> 0]
         /\ UNCHANGED <<tables, sequences, req, messageTables, userRows>>
    ELSE /\ nextMembershipId <= MaxMemberships
         /\ channels' = channels \cup {newChannel(nextChannelId, creatorId, isPrivate)}
         /\ memberships' = memberships \cup
                {newMembership(nextMembershipId, nextChannelId, creatorId, "owner", now(nextMembershipId))}
         /\ nextChannelId' = nextChannelId + 1
         /\ nextMembershipId' = nextMembershipId + 1
         /\ resp' = [op |-> "createChannel", creatorId |-> creatorId,
                     status |-> "ok", id |-> nextChannelId]
         /\ UNCHANGED <<users, conversations, nextUserId, nextConversationId, req, messageTables, userRows>>

\* mutant: no check for an existing membership
joinChannel_NoMembershipCheck(c, u, role) ==
    LET fail(e) == /\ resp' = [op |-> "joinChannel", channel_id |-> c, user_id |-> u,
                               role |-> "unread", status |-> e, id |-> 0]
                   /\ UNCHANGED <<tables, sequences, req, messageTables, userRows>>
    IN  IF selectChannel(channels, c) = {} THEN fail("ChannelNotFound")
        ELSE IF selectUser(users, u) = {} THEN fail("UserNotFound")
        ELSE /\ nextMembershipId <= MaxMemberships
             /\ memberships' = memberships \cup
                    {newMembership(nextMembershipId, c, u, roleOrDefault(role), now(nextMembershipId))}
             /\ nextMembershipId' = nextMembershipId + 1
             /\ resp' = [op |-> "joinChannel", channel_id |-> c, user_id |-> u,
                         role |-> role, status |-> "ok", id |-> nextMembershipId]
             /\ UNCHANGED <<users, channels, conversations, nextUserId, nextChannelId,
                            nextConversationId, req, messageTables, userRows>>

\* input.role is read by the insert alone: resp.role of a call that failed
\* before it is "unread"
joinChannel(c, u, role) ==
    LET fail(e) == /\ resp' = [op |-> "joinChannel", channel_id |-> c, user_id |-> u,
                               role |-> "unread", status |-> e, id |-> 0]
                   /\ UNCHANGED <<tables, sequences, req, messageTables, userRows>>
    IN  IF selectChannel(channels, c) = {} THEN fail("ChannelNotFound")
        ELSE IF selectUser(users, u) = {} THEN fail("UserNotFound")
        ELSE IF selectMembership(memberships, c, u) # {} THEN fail("AlreadyMember")
        ELSE /\ nextMembershipId <= MaxMemberships
             /\ memberships' = memberships \cup
                    {newMembership(nextMembershipId, c, u, roleOrDefault(role), now(nextMembershipId))}
             /\ nextMembershipId' = nextMembershipId + 1
             /\ resp' = [op |-> "joinChannel", channel_id |-> c, user_id |-> u,
                         role |-> role, status |-> "ok", id |-> nextMembershipId]
             /\ UNCHANGED <<users, channels, conversations, nextUserId, nextChannelId,
                            nextConversationId, req, messageTables, userRows>>

\* resp.path records which branch the call took and resp.promoted the row it
\* picked as new owner, as selected (NoRow if none); the caller only sees `true`
leaveChannel(c, u) ==
    LET existingMembership == selectMembership(memberships, c, u)
        done(path, promoted) ==
            resp' = [op |-> "leaveChannel", channel_id |-> c, user_id |-> u,
                     status |-> "ok", path |-> path, promoted |-> promoted]
    IN  IF existingMembership = {}
        THEN /\ resp' = [op |-> "leaveChannel", channel_id |-> c, user_id |-> u,
                         status |-> "NotAMember", path |-> "none", promoted |-> NoRow]
             /\ UNCHANGED <<tables, sequences, req, messageTables, userRows>>
        ELSE \E membership \in existingMembership :
             IF membership.role # "owner"
             THEN /\ memberships' = deleteMembership(memberships, c, u)
                  /\ done("member_left", NoRow)
                  /\ UNCHANGED <<users, channels, conversations, sequences, req, messageTables, userRows>>
             ELSE LET remaining ==
                          remainingMembers(selectChannelMemberships(memberships, c), u)
                  IN  IF remaining # {}
                      THEN \E newOwner \in newOwnerCandidates(remaining) :
                           /\ memberships' = deleteMembership(
                                  updateRoleToOwner(memberships, newOwner.id), c, u)
                           /\ done("ownership_transferred", newOwner)
                           /\ UNCHANGED <<users, channels, conversations, sequences, req, messageTables, userRows>>
                      ELSE /\ channels' = deleteChannel(channels, c)
                           /\ memberships' = cascadeMemberships(memberships, c)
                           /\ messages' = cascadeMessages(messages, c)
                           /\ attachments' = cascadeAttachments(attachments,
                                                  cascadeMessages(messages, c))
                           /\ done("channel_deleted", NoRow)
                           /\ UNCHANGED <<users, conversations, sequences, req,
                                          nextMessageId, nextAttachmentId, userRows>>

getChannelMembers(c) ==
    /\ resp' = IF selectChannel(channels, c) = {}
               THEN [op |-> "getChannelMembers", channel_id |-> c,
                     status |-> "ChannelNotFound", rows |-> {}]
               ELSE [op |-> "getChannelMembers", channel_id |-> c,
                     status |-> "ok", rows |-> selectChannelMemberships(memberships, c)]
    /\ UNCHANGED <<tables, sequences, req, messageTables, userRows>>

createDirectMessageConversation(a, b) ==
    LET existingConversation == selectConversation(conversations, a, b)
        answer(e, id) == resp' = [op |-> "createDirectMessageConversation",
                                  user1_id |-> a, user2_id |-> b, status |-> e, id |-> id]
    IN  IF Cardinality(selectUsersEither(users, a, b)) # expectedUserCount(a, b)
        THEN /\ answer("UsersNotFound", 0)
             /\ UNCHANGED <<tables, sequences, req, messageTables, userRows>>
        ELSE IF existingConversation # {}
        THEN /\ \E cv \in existingConversation : answer("ok", cv.id)
             /\ UNCHANGED <<tables, sequences, req, messageTables, userRows>>
        ELSE /\ nextConversationId <= MaxConversations
             /\ conversations' = conversations \cup
                    {[id |-> nextConversationId, user1_id |-> a, user2_id |-> b]}
             /\ nextConversationId' = nextConversationId + 1
             /\ answer("ok", nextConversationId)
             /\ UNCHANGED <<users, channels, memberships, nextUserId, nextChannelId,
                            nextMembershipId, req, messageTables, userRows>>

\* createMessage(input, senderId): the checks in the order of the code, then
\* the insert; resp records the inputs and the error thrown or "ok"
createMessage(content, c, r, reply, senderId) ==
    LET answer(e, id) ==
            resp' = [op |-> "createMessage", senderId |-> senderId, channel_id |-> c,
                     direct_message_recipient_id |-> r, reply_to_message_id |-> reply,
                     status |-> e, id |-> id]
        fail(e) == /\ answer(e, 0)
                   /\ UNCHANGED <<tables, sequences, req, messageTables, userRows>>
        originalMessage == selectMessage(messages, reply)
    IN  IF selectUser(users, senderId) = {} THEN fail("SenderNotFound")
        ELSE IF ~truthy(c) /\ ~truthy(r) THEN fail("MissingDestination")
        ELSE IF truthy(c) /\ truthy(r) THEN fail("AmbiguousDestination")
        ELSE IF truthy(c) /\ selectChannel(channels, c) = {} THEN fail("ChannelNotFound")
        ELSE IF truthy(c) /\ selectMembership(memberships, c, senderId) = {}
             THEN fail("NotChannelMember")
        ELSE IF truthy(r) /\ selectUser(users, r) = {} THEN fail("RecipientNotFound")
        ELSE IF truthy(r) /\ r = senderId THEN fail("SelfMessage")
        ELSE IF truthy(reply) /\ originalMessage = {} THEN fail("ReplyTargetNotFound")
        ELSE IF truthy(reply) /\ truthy(c)
                /\ \E original \in originalMessage : original.channel_id # c
             THEN fail("ReplyChannelMismatch")
        ELSE IF truthy(reply) /\ truthy(r)
                /\ \E original \in originalMessage : ~isValidDMReply(original, senderId, r)
             THEN fail("ReplyConversationMismatch")
        ELSE /\ nextMessageId <= MaxMessages
             /\ messages' = messages \cup
                    {newMessage(nextMessageId, content, senderId, c, r, reply,
                                now(nextMessageId))}
             /\ nextMessageId' = nextMessageId + 1
             /\ answer("ok", nextMessageId)
             /\ UNCHANGED <<tables, sequences, req, attachments, nextAttachmentId, userRows>>

\* createFileAttachment(input): one insert; the foreign key on message_id
\* rejects a message id with no row (the serial id is consumed either way)
createFileAttachment(messageId) ==
    /\ nextAttachmentId <= MaxAttachments
    /\ nextAttachmentId' = nextAttachmentId + 1
    /\ IF selectMessage(messages, messageId) # {}
       THEN /\ attachments' = attachments \cup
                   {[id |-> nextAttachmentId, message_id |-> messageId]}
            /\ resp' = [op |-> "createFileAttachment", message_id |-> messageId,
                        status |-> "ok", id |-> nextAttachmentId]
       ELSE /\ attachments' = attachments
            /\ resp' = [op |-> "createFileAttachment", message_id |-> messageId,
                        status |-> "ForeignKeyViolation", id |-> 0]
    /\ UNCHANGED <<tables, sequences, req, messages, nextMessageId, userRows>>

\* mutant: the recipient of a direct message may delete it too
deleteMessage_RecipientMayDelete(messageId, userId) ==
    LET messageResult == selectMessage(messages, messageId)
        answer(e, message, cascaded) ==
            resp' = [op |-> "deleteMessage", messageId |-> messageId, userId |-> userId,
                     status |-> e, message |-> message, cascaded |-> cascaded]
        fail(e, message) == /\ answer(e, message, 0)
                            /\ UNCHANGED <<tables, sequences, req, messageTables, userRows>>
        delete(message) ==
            /\ messages' = deleteMessageRow(messages, messageId)
            /\ attachments' = cascadeAttachments(attachments,
                                   deleteMessageRow(messages, messageId))
            /\ answer(IF Cardinality(messageResult) > 0 THEN "true" ELSE "false", message,
                      Cardinality({a \in attachments : a.message_id = messageId}))
            /\ UNCHANGED <<tables, sequences, req, nextMessageId, nextAttachmentId, userRows>>
    IN  IF messageResult = {} THEN fail("MessageNotFound", NoMessage)
        ELSE \E message \in messageResult :
             IF message.sender_id = userId \/ message.direct_message_recipient_id = userId
             THEN delete(message)
             ELSE IF truthy(message.channel_id)
             THEN LET membershipResult ==
                          selectMembership(memberships, message.channel_id, userId)
                  IN  IF membershipResult = {} THEN fail("Unauthorized", message)
                      ELSE \E membership \in membershipResult :
                           IF hasModeratorRole(membership) THEN delete(message)
                           ELSE fail("Unauthorized", message)
             ELSE fail("Unauthorized", message)

\* mutant: a role in any channel gives the permission
deleteMessage_AnyChannelRole(messageId, userId) ==
    LET messageResult == selectMessage(messages, messageId)
        answer(e, message, cascaded) ==
            resp' = [op |-> "deleteMessage", messageId |-> messageId, userId |-> userId,
                     status |-> e, message |-> message, cascaded |-> cascaded]
        fail(e, message) == /\ answer(e, message, 0)
                            /\ UNCHANGED <<tables, sequences, req, messageTables, userRows>>
        delete(message) ==
            /\ messages' = deleteMessageRow(messages, messageId)
            /\ attachments' = cascadeAttachments(attachments,
                                   deleteMessageRow(messages, messageId))
            /\ answer(IF Cardinality(messageResult) > 0 THEN "true" ELSE "false", message,
                      Cardinality({a \in attachments : a.message_id = messageId}))
            /\ UNCHANGED <<tables, sequences, req, nextMessageId, nextAttachmentId, userRows>>
    IN  IF messageResult = {} THEN fail("MessageNotFound", NoMessage)
        ELSE \E message \in messageResult :
             IF message.sender_id = userId THEN delete(message)
             ELSE IF truthy(message.channel_id)
             THEN LET membershipResult == {x \in memberships : x.user_id = userId}
                  IN  IF membershipResult = {} THEN fail("Unauthorized", message)
                      ELSE \E membership \in membershipResult :
                           IF hasModeratorRole(membership) THEN delete(message)
                           ELSE fail("Unauthorized", message)
             ELSE fail("Unauthorized", message)

\* deleteMessage(messageId, userId); resp.status is the error thrown or the
\* boolean returned, (deleteResult.rowCount ?? 0) > 0; resp.message records
\* the row the call selected and resp.cascaded the number of attachment rows
\* that went with it (the caller sees neither)
deleteMessage(messageId, userId) ==
    LET messageResult == selectMessage(messages, messageId)
        answer(e, message, cascaded) ==
            resp' = [op |-> "deleteMessage", messageId |-> messageId, userId |-> userId,
                     status |-> e, message |-> message, cascaded |-> cascaded]
        fail(e, message) == /\ answer(e, message, 0)
                            /\ UNCHANGED <<tables, sequences, req, messageTables, userRows>>
        delete(message) ==
            /\ messages' = deleteMessageRow(messages, messageId)
            /\ attachments' = cascadeAttachments(attachments,
                                   deleteMessageRow(messages, messageId))
            /\ answer(IF Cardinality(messageResult) > 0 THEN "true" ELSE "false", message,
                      Cardinality({a \in attachments : a.message_id = messageId}))
            /\ UNCHANGED <<tables, sequences, req, nextMessageId, nextAttachmentId, userRows>>
    IN  IF messageResult = {} THEN fail("MessageNotFound", NoMessage)
        ELSE \E message \in messageResult :
             IF message.sender_id = userId THEN delete(message)
             ELSE IF truthy(message.channel_id)
             THEN LET membershipResult ==
                          selectMembership(memberships, message.channel_id, userId)
                  IN  IF membershipResult = {} THEN fail("Unauthorized", message)
                      ELSE \E membership \in membershipResult :
                           IF hasModeratorRole(membership) THEN delete(message)
                           ELSE fail("Unauthorized", message)
             ELSE fail("Unauthorized", message)

\* mutant: the channels of every membership row, whoever the member is
userChannels_AllMembers(mems, userId) == {m.channel_id : m \in mems}

\* userChannels.map(uc => uc.channel_id) of the membership select by user_id
userChannels(mems, userId) == {m.channel_id : m \in {x \in mems : x.user_id = userId}}

\* the rows searchMessages(searchQuery, userId, channelId) returns over the
\* membership table mems and the message table msgs; channelId Null is the
\* absent (undefined) channel id
searchResult(mems, msgs, searchQuery, userId, channelId) ==
    LET matching == {m \in msgs : ilike(m.content, searchQuery)}
        channelIds == userChannels(mems, userId)
        channelMessages ==
            IF channelIds # {}
            THEN limit(orderByCreatedAt({m \in matching : m.channel_id \in channelIds}),
                       PartSearchLimit)
            ELSE <<>>
        directMessages ==
            limit(orderByCreatedAt(
                      {m \in matching : /\ m.channel_id = Null
                                        /\ (\/ m.sender_id = userId
                                            \/ m.direct_message_recipient_id = userId)}),
                  PartSearchLimit)
        combined == {channelMessages[i] : i \in DOMAIN channelMessages}
                        \cup {directMessages[i] : i \in DOMAIN directMessages}
    IN  IF trim(searchQuery) = <<>> THEN <<>>
        ELSE IF channelId # Null
        THEN IF ~channelAccess(mems, channelId, userId) THEN <<>>
             ELSE limit(orderByCreatedAt({m \in matching : m.channel_id = channelId}),
                        ChannelSearchLimit)
        ELSE limit(orderByCreatedAt(combined), TotalSearchLimit)

\* searchMessages(searchQuery, userId, channelId): reads, writes nothing
searchMessages(searchQuery, userId, channelId) ==
    /\ resp' = [op |-> "searchMessages", query |-> searchQuery, userId |-> userId,
                channelId |-> channelId, status |-> "ok",
                rows |-> searchResult(memberships, messages, searchQuery, userId, channelId)]
    /\ UNCHANGED <<tables, sequences, req, messageTables, userRows>>

\* --------------------------------------------------- statement-level actions
\* A request slot p runs one call at a time; every action below is one awaited
\* statement of the call, so other requests' statements fall between them.

\* createChannel, statement 1: select the creator (the requests are for
\* public channels)
CreateChannelSelectUser(p) ==
    /\ req[p].op = "idle"
    /\ \E creatorId \in UserIds :
         req' = [req EXCEPT ![p] =
                   IF selectUser(users, creatorId) = {}
                   THEN [Idle EXCEPT !.op = "createChannel", !.pc = "done",
                                     !.user_id = creatorId, !.status = "CreatorNotFound"]
                   ELSE [Idle EXCEPT !.op = "createChannel", !.pc = "insert_channel",
                                     !.user_id = creatorId]]
    /\ UNCHANGED <<tables, sequences, resp, messageTables, userRows>>

\* createChannel, statement 2: insert the channel row
CreateChannelInsertChannel(p) ==
    /\ req[p].op = "createChannel" /\ req[p].pc = "insert_channel"
    /\ nextChannelId <= MaxChannels
    /\ channels' = channels \cup {newChannel(nextChannelId, req[p].user_id, FALSE)}
    /\ nextChannelId' = nextChannelId + 1
    /\ req' = [req EXCEPT ![p].channel_id = nextChannelId, ![p].pc = "insert_membership"]
    /\ UNCHANGED <<users, memberships, conversations, nextUserId, nextMembershipId,
                   nextConversationId, resp, messageTables, userRows>>

\* createChannel, statement 3: insert the owner membership of the creator
CreateChannelInsertMembership(p) ==
    /\ req[p].op = "createChannel" /\ req[p].pc = "insert_membership"
    /\ nextMembershipId <= MaxMemberships
    /\ nextMembershipId' = nextMembershipId + 1
    /\ IF membershipForeignKeysHold(channels, users, req[p].channel_id, req[p].user_id)
       THEN /\ memberships' = memberships \cup
                   {newMembership(nextMembershipId, req[p].channel_id, req[p].user_id,
                                  "owner", now(nextMembershipId))}
            /\ req' = [req EXCEPT ![p].pc = "done", ![p].status = "ok"]
       ELSE /\ memberships' = memberships
            /\ req' = [req EXCEPT ![p].pc = "done", ![p].status = "ForeignKeyViolation"]
    /\ UNCHANGED <<users, channels, conversations, nextUserId, nextChannelId,
                   nextConversationId, resp, messageTables, userRows>>

\* joinChannel, statement 1: select the channel
JoinSelectChannel(p) ==
    /\ req[p].op = "idle"
    /\ \E c \in ChannelIds, u \in UserIds, role \in RoleInputs :
         req' = [req EXCEPT ![p] =
                   IF selectChannel(channels, c) = {}
                   THEN [Idle EXCEPT !.op = "joinChannel", !.pc = "done", !.channel_id = c,
                                     !.user_id = u, !.role = role,
                                     !.status = "ChannelNotFound"]
                   ELSE [Idle EXCEPT !.op = "joinChannel", !.pc = "select_user",
                                     !.channel_id = c, !.user_id = u, !.role = role]]
    /\ UNCHANGED <<tables, sequences, resp, messageTables, userRows>>

\* joinChannel, statement 2: select the user
JoinSelectUser(p) ==
    /\ req[p].op = "joinChannel" /\ req[p].pc = "select_user"
    /\ req' = [req EXCEPT ![p] =
                 IF selectUser(users, req[p].user_id) = {}
                 THEN [req[p] EXCEPT !.pc = "done", !.status = "UserNotFound"]
                 ELSE [req[p] EXCEPT !.pc = "select_membership"]]
    /\ UNCHANGED <<tables, sequences, resp, messageTables, userRows>>

\* joinChannel, statement 3: select the existing membership
JoinSelectMembership(p) ==
    /\ req[p].op = "joinChannel" /\ req[p].pc = "select_membership"
    /\ req' = [req EXCEPT ![p] =
                 IF selectMembership(memberships, req[p].channel_id, req[p].user_id) # {}
                 THEN [req[p] EXCEPT !.pc = "done", !.status = "AlreadyMember"]
                 ELSE [req[p] EXCEPT !.pc = "insert_membership"]]
    /\ UNCHANGED <<tables, sequences, resp, messageTables, userRows>>

\* joinChannel, statement 4: insert the membership row
JoinInsertMembership(p) ==
    /\ req[p].op = "joinChannel" /\ req[p].pc = "insert_membership"
    /\ nextMembershipId <= MaxMemberships
    /\ nextMembershipId' = nextMembershipId + 1
    /\ IF membershipForeignKeysHold(channels, users, req[p].channel_id, req[p].user_id)
       THEN /\ memberships' = memberships \cup
                   {newMembership(nextMembershipId, req[p].channel_id, req[p].user_id,
                                  roleOrDefault(req[p].role), now(nextMembershipId))}
            /\ req' = [req EXCEPT ![p].pc = "done", ![p].status = "ok",
                                  ![p].target = nextMembershipId]
       ELSE /\ memberships' = memberships
            /\ req' = [req EXCEPT ![p].pc = "done", ![p].status = "ForeignKeyViolation"]
    /\ UNCHANGED <<users, channels, conversations, nextUserId, nextChannelId,
                   nextConversationId, resp, messageTables, userRows>>

\* leaveChannel, statement 1: select the caller's membership
LeaveSelectMembership(p) ==
    /\ req[p].op = "idle"
    /\ \E c \in ChannelIds, u \in UserIds :
         LET existingMembership == selectMembership(memberships, c, u)
             call == [Idle EXCEPT !.op = "leaveChannel", !.channel_id = c, !.user_id = u]
         IN  IF existingMembership = {}
             THEN req' = [req EXCEPT ![p] =
                            [call EXCEPT !.pc = "done", !.status = "NotAMember"]]
             ELSE \E membership \in existingMembership :
                    req' = [req EXCEPT ![p] =
                              [call EXCEPT !.role = membership.role,
                                           !.pc = IF membership.role = "owner"
                                                  THEN "select_members"
                                                  ELSE "delete_membership"]]
    /\ UNCHANGED <<tables, sequences, resp, messageTables, userRows>>

\* leaveChannel, statement 2: select the channel's memberships, pick the new owner
LeaveSelectMembers(p) ==
    /\ req[p].op = "leaveChannel" /\ req[p].pc = "select_members"
    /\ LET remaining == remainingMembers(
                            selectChannelMemberships(memberships, req[p].channel_id),
                            req[p].user_id)
       IN  IF remaining # {}
           THEN \E newOwner \in newOwnerCandidates(remaining) :
                  req' = [req EXCEPT ![p].target = newOwner.id, ![p].pc = "update_owner"]
           ELSE req' = [req EXCEPT ![p].pc = "delete_channel"]
    /\ UNCHANGED <<tables, sequences, resp, messageTables, userRows>>

\* leaveChannel, statement 3a: transfer ownership to the picked row
LeaveUpdateOwner(p) ==
    /\ req[p].op = "leaveChannel" /\ req[p].pc = "update_owner"
    /\ memberships' = updateRoleToOwner(memberships, req[p].target)
    /\ req' = [req EXCEPT ![p].pc = "delete_membership",
                          ![p].hit = Cardinality({m \in memberships : m.id = req[p].target})]
    /\ UNCHANGED <<users, channels, conversations, sequences, resp, messageTables, userRows>>

\* leaveChannel, statement 3b: delete the channel; its memberships cascade
LeaveDeleteChannel(p) ==
    /\ req[p].op = "leaveChannel" /\ req[p].pc = "delete_channel"
    /\ channels' = deleteChannel(channels, req[p].channel_id)
    /\ memberships' = cascadeMemberships(memberships, req[p].channel_id)
    /\ req' = [req EXCEPT ![p].pc = "done", ![p].status = "ok",
                          ![p].hit = Cardinality(selectChannel(channels, req[p].channel_id))]
    /\ messages' = cascadeMessages(messages, req[p].channel_id)
    /\ attachments' = cascadeAttachments(attachments,
                           cascadeMessages(messages, req[p].channel_id))
    /\ UNCHANGED <<users, conversations, sequences, resp, nextMessageId, nextAttachmentId, userRows>>

\* leaveChannel, statement 4: delete the caller's membership
LeaveDeleteMembership(p) ==
    /\ req[p].op = "leaveChannel" /\ req[p].pc = "delete_membership"
    /\ memberships' = deleteMembership(memberships, req[p].channel_id, req[p].user_id)
    /\ req' = [req EXCEPT ![p].pc = "done", ![p].status = "ok"]
    /\ UNCHANGED <<users, channels, conversations, sequences, resp, messageTables, userRows>>

\* createDirectMessageConversation, statement 1: select the two users
ConversationSelectUsers(p) ==
    /\ req[p].op = "idle"
    /\ \E a \in UserIds, b \in UserIds :
         LET call == [Idle EXCEPT !.op = "createDirectMessageConversation",
                                  !.user_id = a, !.user2_id = b]
         IN  req' = [req EXCEPT ![p] =
                   IF Cardinality(selectUsersEither(users, a, b)) # expectedUserCount(a, b)
                   THEN [call EXCEPT !.pc = "done", !.status = "UsersNotFound"]
                   ELSE [call EXCEPT !.pc = "select_conversation"]]
    /\ UNCHANGED <<tables, sequences, resp, messageTables, userRows>>

\* createDirectMessageConversation, statement 2: look the pair up in either order
ConversationSelectExisting(p) ==
    /\ req[p].op = "createDirectMessageConversation" /\ req[p].pc = "select_conversation"
    /\ LET existingConversation ==
               selectConversation(conversations, req[p].user_id, req[p].user2_id)
       IN  IF existingConversation # {}
           THEN \E cv \in existingConversation :
                  req' = [req EXCEPT ![p].pc = "done", ![p].status = "ok",
                                     ![p].target = cv.id]
           ELSE req' = [req EXCEPT ![p].pc = "insert_conversation"]
    /\ UNCHANGED <<tables, sequences, resp, messageTables, userRows>>

\* createDirectMessageConversation, statement 3: insert the row in the caller's order
ConversationInsert(p) ==
    /\ req[p].op = "createDirectMessageConversation" /\ req[p].pc = "insert_conversation"
    /\ nextConversationId <= MaxConversations
    /\ conversations' = conversations \cup
           {[id |-> nextConversationId, user1_id |-> req[p].user_id,
             user2_id |-> req[p].user2_id]}
    /\ nextConversationId' = nextConversationId + 1
    /\ req' = [req EXCEPT ![p].pc = "done", ![p].status = "ok",
                          ![p].target = nextConversationId]
    /\ UNCHANGED <<users, channels, memberships, nextUserId, nextChannelId,
                   nextMembershipId, resp, messageTables, userRows>>

\* deleteMessage, statement 1: select the message, decide on the sender
DeleteSelectMessage(p) ==
    /\ req[p].op = "idle"
    /\ \E messageId \in MessageIds, userId \in UserIds :
         LET messageResult == selectMessage(messages, messageId)
             call == [Idle EXCEPT !.op = "deleteMessage", !.target = messageId,
                                  !.user_id = userId]
         IN  IF messageResult = {}
             THEN req' = [req EXCEPT ![p] =
                            [call EXCEPT !.pc = "done", !.status = "MessageNotFound"]]
             ELSE \E message \in messageResult :
                    req' = [req EXCEPT ![p] =
                       IF message.sender_id = userId
                       THEN [call EXCEPT !.message = message, !.pc = "delete_message"]
                       ELSE IF truthy(message.channel_id)
                       THEN [call EXCEPT !.message = message, !.pc = "select_membership"]
                       ELSE [call EXCEPT !.message = message, !.pc = "done",
                                         !.status = "Unauthorized"]]
    /\ UNCHANGED <<tables, sequences, resp, messageTables, userRows>>

\* deleteMessage, statement 2: select the acting user's membership in the
\* message's channel
DeleteSelectMembership(p) ==
    /\ req[p].op = "deleteMessage" /\ req[p].pc = "select_membership"
    /\ LET membershipResult ==
               selectMembership(memberships, req[p].message.channel_id, req[p].user_id)
       IN  IF membershipResult = {}
           THEN req' = [req EXCEPT ![p].pc = "done", ![p].status = "Unauthorized"]
           ELSE \E membership \in membershipResult :
                  req' = [req EXCEPT ![p] =
                            IF hasModeratorRole(membership)
                            THEN [req[p] EXCEPT !.pc = "delete_message"]
                            ELSE [req[p] EXCEPT !.pc = "done", !.status = "Unauthorized"]]
    /\ UNCHANGED <<tables, sequences, resp, messageTables, userRows>>

\* deleteMessage, statement 3: delete the row (its attachments cascade) and
\* return (deleteResult.rowCount ?? 0) > 0
DeleteDeleteMessage(p) ==
    /\ req[p].op = "deleteMessage" /\ req[p].pc = "delete_message"
    /\ messages' = deleteMessageRow(messages, req[p].target)
    /\ attachments' = cascadeAttachments(attachments,
                           deleteMessageRow(messages, req[p].target))
    /\ LET rowCount == Cardinality(selectMessage(messages, req[p].target))
       IN  req' = [req EXCEPT ![p].pc = "done", ![p].hit = rowCount,
                              ![p].status = IF rowCount > 0 THEN "true" ELSE "false"]
    /\ UNCHANGED <<tables, sequences, resp, nextMessageId, nextAttachmentId, userRows>>

\* the call returns or throws; the slot takes the next request
Return(p) ==
    /\ req[p].pc = "done"
    /\ req' = [req EXCEPT ![p] = Idle]
    /\ UNCHANGED <<tables, sequences, resp, messageTables, userRows>>

\* ---------------------------------------------------------- specifications
\* registrations under a fresh email address and the same password
RegisterUserCall == registerUser(emailOf(nextUserId), DefaultPassword)
\* the channel a createChannel call by creatorId inserts, if it inserts one,
\* has an id of at most cap
withinChannels(cap, creatorId) == selectUser(users, creatorId) = {} \/ nextChannelId <= cap
\* requests for public channels
CreateChannelCall ==
    \E u \in UserIds : withinChannels(MaxChannels, u) /\ createChannel(u, FALSE)
JoinChannelCall == \E c \in ChannelIds, u \in UserIds, r \in RoleInputs : joinChannel(c, u, r)
LeaveChannelCall == \E c \in ChannelIds, u \in UserIds : leaveChannel(c, u)
GetChannelMembersCall == \E c \in ChannelIds : getChannelMembers(c)
CreateConversationCall == \E a \in UserIds, b \in UserIds : createDirectMessageConversation(a, b)

Next ==
    \/ RegisterUserCall
    \/ CreateChannelCall
    \/ JoinChannelCall
    \/ LeaveChannelCall
    \/ GetChannelMembersCall

Spec == Init /\ [][Next]_vars

NextDM ==
    \/ RegisterUserCall
    \/ CreateConversationCall

SpecDM == Init /\ [][NextDM]_vars

\* createChannel statement by statement, observed by whole getChannelMembers calls
NextCreate ==
    \/ RegisterUserCall
    \/ GetChannelMembersCall
    \/ \E p \in Requests : CreateChannelSelectUser(p)
    \/ \E p \in Requests : CreateChannelInsertChannel(p)
    \/ \E p \in Requests : CreateChannelInsertMembership(p)
    \/ \E p \in Requests : Return(p)

SpecCreate == Init /\ [][NextCreate]_vars

\* joinChannel statement by statement
NextJoin ==
    \/ RegisterUserCall
    \/ CreateChannelCall
    \/ \E p \in Requests : JoinSelectChannel(p)
    \/ \E p \in Requests : JoinSelectUser(p)
    \/ \E p \in Requests : JoinSelectMembership(p)
    \/ \E p \in Requests : JoinInsertMembership(p)
    \/ \E p \in Requests : Return(p)

SpecJoin == Init /\ [][NextJoin]_vars

\* leaveChannel statement by statement; the joins before it never ask for the
\* owner role, so every channel enters the leaves with exactly one owner
JoinChannelAsMemberCall ==
    \E c \in ChannelIds, u \in UserIds, r \in RoleInputs \ {"owner"} : joinChannel(c, u, r)

NextLeave ==
    \/ RegisterUserCall
    \/ CreateChannelCall
    \/ JoinChannelAsMemberCall
    \/ \E p \in Requests : LeaveSelectMembership(p)
    \/ \E p \in Requests : LeaveSelectMembers(p)
    \/ \E p \in Requests : LeaveUpdateOwner(p)
    \/ \E p \in Requests : LeaveDeleteChannel(p)
    \/ \E p \in Requests : LeaveDeleteMembership(p)
    \/ \E p \in Requests : Return(p)

SpecLeave == Init /\ [][NextLeave]_vars

\* createDirectMessageConversation statement by statement
NextConversation ==
    \/ RegisterUserCall
    \/ \E p \in Requests : ConversationSelectUsers(p)
    \/ \E p \in Requests : ConversationSelectExisting(p)
    \/ \E p \in Requests : ConversationInsert(p)
    \/ \E p \in Requests : Return(p)

SpecConversation == Init /\ [][NextConversation]_vars

\* createMessageInputSchema: channel_id, direct_message_recipient_id and
\* reply_to_message_id are z.number().nullable().optional(): absent or null
\* (Null), or any number: 0, which no row has as id, or an id
ChannelInputs == {Null, 0} \cup ChannelIds
RecipientInputs == {Null, 0} \cup UserIds
ReplyInputs == {Null, 0} \cup MessageIds

CreateMessageCall ==
    \E content \in Contents, c \in ChannelInputs, r \in RecipientInputs,
       reply \in ReplyInputs, senderId \in UserIds :
        createMessage(content, c, r, reply, senderId)
\* requests that name a channel and nothing else
PostToChannelCall ==
    \E content \in Contents, c \in ChannelInputs \ {Null}, senderId \in UserIds :
        createMessage(content, c, Null, Null, senderId)
\* requests with one destination that are no reply
SendMessageCall ==
    \E content \in Contents, c \in ChannelIds \cup {Null}, r \in UserIds \cup {Null},
       senderId \in UserIds :
        /\ (c = Null) # (r = Null)
        /\ createMessage(content, c, r, Null, senderId)
CreateFileAttachmentCall == \E messageId \in MessageIds : createFileAttachment(messageId)
SearchMessagesCall ==
    \E searchQuery \in Queries, userId \in UserIds, channelId \in ChannelInputs :
        searchMessages(searchQuery, userId, channelId)
DeleteMessageCall == \E messageId \in MessageIds, userId \in UserIds : deleteMessage(messageId, userId)

\* createMessage over every combination of its optional fields
NextCreateMessage ==
    \/ RegisterUserCall
    \/ CreateChannelCall
    \/ CreateMessageCall

SpecCreateMessage == Init /\ [][NextCreateMessage]_vars

\* channel messages while members come and go
NextChannelMessages ==
    \/ RegisterUserCall
    \/ CreateChannelCall
    \/ JoinChannelAsMemberCall
    \/ LeaveChannelCall
    \/ PostToChannelCall
    \/ SearchMessagesCall

SpecChannelMessages == Init /\ [][NextChannelMessages]_vars

\* messages with attachments, deleted by their sender and by others
NextDeleteMessage ==
    \/ RegisterUserCall
    \/ CreateChannelCall
    \/ JoinChannelAsMemberCall
    \/ SendMessageCall
    \/ CreateFileAttachmentCall
    \/ DeleteMessageCall

SpecDeleteMessage == Init /\ [][NextDeleteMessage]_vars

\* deleteMessage statement by statement
NextDeleteRace ==
    \/ RegisterUserCall
    \/ CreateChannelCall
    \/ SendMessageCall
    \/ \E p \in Requests : DeleteSelectMessage(p)
    \/ \E p \in Requests : DeleteSelectMembership(p)
    \/ \E p \in Requests : DeleteDeleteMessage(p)
    \/ \E p \in Requests : Return(p)

SpecDeleteRace == Init /\ [][NextDeleteRace]_vars

\* ------------------------------------------------------------------ claims
membersOf(mems, c) == {m \in mems : m.channel_id = c}
ownersOf(mems, c) == {m \in mems : m.channel_id = c /\ m.role = "owner"}
rowsOf(mems, c, u) == {m \in mems : m.channel_id = c /\ m.user_id = u}
pairRows(convs, a, b) == {cv \in convs : {cv.user1_id, cv.user2_id} = {a, b}}

\* C1: after any sequence of createChannel, joinChannel (any role, owner
\* included) and leaveChannel calls, every channel that exists has exactly one
\* membership row with role owner.
C1_ExactlyOneOwner ==
    \A c \in channels : Cardinality(ownersOf(memberships, c.id)) = 1

\* C2: createChannel inserts the channel row and the creator's owner membership
\* as one atomic unit: a getChannelMembers call of another request never finds the
\* channel without exactly that one row, and a createChannel whose membership
\* insert failed leaves no channel row behind.
C2_CreateChannelAtomic ==
    /\ (resp.op = "getChannelMembers" /\ resp.status = "ok") =>
         \E c \in channels :
            /\ c.id = resp.channel_id
            /\ Cardinality(resp.rows) = 1
            /\ \A m \in resp.rows : m.role = "owner" /\ m.user_id = c.created_by
    /\ \A p \in Requests :
         (req[p].op = "createChannel" /\ req[p].pc = "done"
            /\ req[p].status = "ForeignKeyViolation") =>
         \A c \in channels : c.id # req[p].channel_id

\* C3: leaveChannel calls of different users on one channel whose statements
\* interleave end as if they had run one after the other: once none is in
\* flight the channel, if it still exists, has a membership row and exactly one
\* owner; the promotion UPDATE hits the row it picked (never a row already
\* removed); and the channel DELETE hits the channel (it is deleted at most once).
C3_ConcurrentLeavesSerialize ==
    (\A p \in Requests, q \in Requests :
        (/\ p # q
         /\ req[p].op = "leaveChannel" /\ req[q].op = "leaveChannel"
         /\ req[p].channel_id = req[q].channel_id) => req[p].user_id # req[q].user_id)
    =>
    /\ \A c \in channels :
         (\A p \in Requests : ~(/\ req[p].op = "leaveChannel"
                                /\ req[p].channel_id = c.id
                                /\ req[p].pc # "done")) =>
         /\ membersOf(memberships, c.id) # {}
         /\ Cardinality(ownersOf(memberships, c.id)) = 1
    /\ \A p \in Requests :
         (/\ req[p].op = "leaveChannel"
          /\ req[p].target # 0
          /\ req[p].pc \in {"delete_membership", "done"}) => req[p].hit = 1
    /\ \A p \in Requests :
         (/\ req[p].op = "leaveChannel"
          /\ req[p].pc = "done" /\ req[p].status = "ok"
          /\ req[p].role = "owner" /\ req[p].target = 0) => req[p].hit = 1

\* C4: at most one membership row exists per (channel, user) pair in every
\* reachable state, also when two joinChannel calls for the same pair interleave
\* their existence check and insert.
C4_OneMembershipPerChannelUser ==
    \A m1 \in memberships, m2 \in memberships :
        (m1.channel_id = m2.channel_id /\ m1.user_id = m2.user_id) => m1.id = m2.id

\* C5: a joinChannel for a (channel, user) pair that already has a membership row
\* fails AlreadyMember whatever role it asks for, and leaves the channels and the
\* membership rows as they were.
C5_SecondJoinRejected ==
    [][ (/\ resp'.op = "joinChannel"
         /\ rowsOf(memberships, resp'.channel_id, resp'.user_id) # {}) =>
        (/\ resp'.status = "AlreadyMember"
         /\ memberships' = memberships
         /\ channels' = channels) ]_vars

\* a join was rejected for a user who holds a member row in a two-member channel
C5_Witness ==
    /\ resp.op = "joinChannel" /\ resp.status = "AlreadyMember"
    /\ \E m \in rowsOf(memberships, resp.channel_id, resp.user_id) : m.role = "member"
    /\ Cardinality(membersOf(memberships, resp.channel_id)) = 2

\* C6: leaveChannel by an owner who is the only member deletes the channel: no
\* membership row references the channel id afterwards, the id never comes back,
\* and getChannelMembers on a deleted channel id fails ChannelNotFound.
C6_SoleOwnerLeaveDeletesChannel ==
    [][ /\ (/\ resp'.op = "leaveChannel"
            /\ membersOf(memberships, resp'.channel_id) # {}
            /\ \A m \in membersOf(memberships, resp'.channel_id) :
                  m.user_id = resp'.user_id /\ m.role = "owner") =>
           (/\ resp'.status = "ok"
            /\ \A c \in channels' : c.id # resp'.channel_id
            /\ membersOf(memberships', resp'.channel_id) = {})
        /\ \A id \in 1..(nextChannelId - 1) :
              (\A c \in channels : c.id # id) =>
              /\ \A c \in channels' : c.id # id
              /\ (resp'.op = "getChannelMembers" /\ resp'.channel_id = id) =>
                    resp'.status = "ChannelNotFound" ]_vars

\* getChannelMembers failed on the id of a channel its sole owner has left
C6_Witness ==
    /\ resp.op = "getChannelMembers" /\ resp.status = "ChannelNotFound"
    /\ resp.channel_id < nextChannelId
    /\ membersOf(memberships, resp.channel_id) = {}

\* C7: leaveChannel by the owner while an admin membership remains succeeds,
\* promotes one admin row (never a plain member) and removes the departing row:
\* the channel has one row fewer, the promoted row keeps its id and joined_at,
\* every other row, of this and of any other channel, is unchanged.
C7_OwnerLeavePromotesAdmin ==
    [][ LET c == resp'.channel_id
            u == resp'.user_id
            before == membersOf(memberships, c)
            own == rowsOf(memberships, c, u)
            admins == {m \in before : m.user_id # u /\ m.role = "admin"}
        IN  (/\ resp'.op = "leaveChannel"
             /\ \E m \in own : m.role = "owner"
             /\ admins # {}) =>
            (/\ resp'.status = "ok"
             /\ channels' = channels
             /\ Cardinality(membersOf(memberships', c)) = Cardinality(before) - 1
             /\ \E a \in admins :
                  memberships' = ((memberships \ own) \ {a})
                                    \cup {[a EXCEPT !.role = "owner"]}) ]_vars

\* an owner left a channel holding an admin and a plain member: the admin row
\* is now the owner, the plain member still a member
C7_Witness ==
    /\ resp.op = "leaveChannel" /\ resp.path = "ownership_transferred"
    /\ resp.promoted.role = "admin"
    /\ [resp.promoted EXCEPT !.role = "owner"] \in memberships
    /\ \E m \in membersOf(memberships, resp.channel_id) : m.role = "member"

\* C8: leaveChannel by the owner when only plain members remain promotes exactly
\* one of them to owner and removes the departing row; when B was the only other
\* member, the channel's rows (what getChannelMembers returns) are exactly B's
\* row with role owner.
C8_OwnerLeavePromotesOneMember ==
    [][ LET c == resp'.channel_id
            u == resp'.user_id
            own == rowsOf(memberships, c, u)
            others == membersOf(memberships, c) \ own
        IN  (/\ resp'.op = "leaveChannel"
             /\ \E m \in own : m.role = "owner"
             /\ others # {}
             /\ \A m \in others : m.role = "member") =>
            (/\ resp'.status = "ok"
             /\ channels' = channels
             /\ \E n \in others :
                  /\ memberships' = ((memberships \ own) \ {n})
                                       \cup {[n EXCEPT !.role = "owner"]}
                  /\ Cardinality(others) = 1 =>
                        membersOf(memberships', c) = {[n EXCEPT !.role = "owner"]}
             /\ Cardinality(ownersOf(memberships', c)) = 1) ]_vars

\* A created the channel, B joined as member, A left: the channel's only row is
\* B's, with role owner
C8_Witness ==
    /\ resp.op = "leaveChannel" /\ resp.path = "ownership_transferred"
    /\ resp.promoted.role = "member"
    /\ membersOf(memberships, resp.channel_id) = {[resp.promoted EXCEPT !.role = "owner"]}
    /\ \E c \in channels : c.id = resp.channel_id /\ c.created_by = resp.user_id
    /\ resp.promoted.user_id # resp.user_id

\* C9: leaveChannel for a (channel, user) pair without a membership row fails
\* NotAMember, also when the channel does not exist, and changes neither the
\* channels nor the memberships.
C9_LeaveNotAMember ==
    [][ (/\ resp'.op = "leaveChannel"
         /\ rowsOf(memberships, resp'.channel_id, resp'.user_id) = {}) =>
        (/\ resp'.status = "NotAMember"
         /\ channels' = channels
         /\ memberships' = memberships) ]_vars

\* a leave was rejected on a channel id that does not exist while other
\* memberships do
C9_Witness ==
    /\ resp.op = "leaveChannel" /\ resp.status = "NotAMember"
    /\ \A c \in channels : c.id # resp.channel_id
    /\ resp.user_id \in users

\* C10: createDirectMessageConversation(a,b) and (b,a) return the id of the one
\* row stored for the unordered pair {a,b}: a call that finds the pair stored, in
\* either order, returns that row and stores nothing; a call that does not
\* stores one row with user1 = a and user2 = b; rows are never changed or removed,
\* so no sequence of calls creates a second row for the pair.
C10_ConversationIdempotent ==
    [][ /\ (resp'.op = "createDirectMessageConversation" /\ resp'.status = "ok") =>
           LET a == resp'.user1_id
               b == resp'.user2_id
               stored == pairRows(conversations, a, b)
           IN  IF stored # {}
               THEN /\ conversations' = conversations
                    /\ \E cv \in stored : cv.id = resp'.id
               ELSE /\ conversations' = conversations \cup
                           {[id |-> resp'.id, user1_id |-> a, user2_id |-> b]}
                    /\ \A cv \in conversations : cv.id # resp'.id
        /\ conversations \subseteq conversations'
        /\ \A cv1 \in conversations', cv2 \in conversations' :
              {cv1.user1_id, cv1.user2_id} = {cv2.user1_id, cv2.user2_id} => cv1 = cv2
      ]_vars

\* a call with the users in the reverse of the stored order returned the stored row
C10_Witness ==
    /\ resp.op = "createDirectMessageConversation" /\ resp.status = "ok"
    /\ resp.user1_id # resp.user2_id
    /\ \E cv \in conversations :
          /\ cv.id = resp.id
          /\ cv.user1_id = resp.user2_id /\ cv.user2_id = resp.user1_id
    /\ Cardinality(pairRows(conversations, resp.user1_id, resp.user2_id)) = 1

\* C11: for any unordered pair of user ids at most one conversation row
\* exists in every reachable state, also when createDirectMessageConversation
\* (a,b) and (b,a) run concurrently with their lookups and inserts interleaved.
C11_OneConversationPerPair ==
    \A a \in UserIds, b \in UserIds :
        a # b => Cardinality(pairRows(conversations, a, b)) <= 1

\* the message row a reply_to_message_id names, and the two users of a
\* direct message
targetOf(msgs, id) == {t \in msgs : t.id = id}
partiesOf(senderId, recipientId) == {senderId, recipientId}

\* C12: createMessage with both channel_id and direct_message_recipient_id
\* set fails AmbiguousDestination and with neither set fails
\* MissingDestination, inserting nothing in either case; every message row
\* has exactly one of channel_id and direct_message_recipient_id non-null.
\* (The sender exists: an unknown sender is reported first.)
C12_DestinationExactlyOne ==
    [][ /\ (/\ resp'.op = "createMessage"
            /\ resp'.senderId \in users
            /\ resp'.channel_id # Null
            /\ resp'.direct_message_recipient_id # Null) =>
               (resp'.status = "AmbiguousDestination" /\ messages' = messages)
        /\ (/\ resp'.op = "createMessage"
            /\ resp'.senderId \in users
            /\ resp'.channel_id = Null
            /\ resp'.direct_message_recipient_id = Null) =>
               (resp'.status = "MissingDestination" /\ messages' = messages)
        /\ \A m \in messages' :
               (m.channel_id = Null) # (m.direct_message_recipient_id = Null) ]_vars

\* the checks of section 4.5 that a request violates, each taken on its own,
\* in the order of the section
violatedChecks(us, chs, mems, msgs, senderId, c, r, reply) ==
    LET target == targetOf(msgs, reply)
    IN  <<senderId \notin us,
          c = Null /\ r = Null,
          c # Null /\ r # Null,
          c # Null /\ (\A ch \in chs : ch.id # c),
          c # Null /\ rowsOf(mems, c, senderId) = {},
          r # Null /\ r \notin us,
          r # Null /\ r = senderId,
          reply # Null /\ target = {},
          reply # Null /\ c # Null /\ (\E t \in target : t.channel_id # c),
          reply # Null /\ r # Null /\
              (\E t \in target : partiesOf(t.sender_id, t.direct_message_recipient_id)
                                     # partiesOf(senderId, r) \/ t.channel_id # Null)>>
checkErrors ==
    <<"SenderNotFound", "MissingDestination", "AmbiguousDestination", "ChannelNotFound",
      "NotChannelMember", "RecipientNotFound", "SelfMessage", "ReplyTargetNotFound",
      "ReplyChannelMismatch", "ReplyConversationMismatch">>
firstViolated(v) == CHOOSE i \in DOMAIN v : v[i] /\ \A j \in 1..(i - 1) : ~v[j]

\* C13: when a createMessage request violates several checks at once, the
\* error is that of the first failing check in the order SenderNotFound,
\* MissingDestination, AmbiguousDestination, ChannelNotFound,
\* NotChannelMember, RecipientNotFound, SelfMessage, ReplyTargetNotFound,
\* ReplyChannelMismatch / ReplyConversationMismatch, and nothing is inserted.
C13_FirstFailingCheckWins ==
    [][ resp'.op = "createMessage" =>
        LET v == violatedChecks(users, channels, memberships, messages, resp'.senderId,
                                resp'.channel_id, resp'.direct_message_recipient_id,
                                resp'.reply_to_message_id)
        IN  Cardinality({i \in DOMAIN v : v[i]}) >= 2 =>
                /\ resp'.status = checkErrors[firstViolated(v)]
                /\ messages' = messages ]_vars

C14_ChannelMessageNeedsMembership ==
    [][ (/\ resp'.op = "createMessage"
         /\ resp'.senderId \in users
         /\ resp'.channel_id # Null
         /\ resp'.direct_message_recipient_id = Null) =>
        LET c == resp'.channel_id
            member == rowsOf(memberships, c, resp'.senderId) # {}
            exists == \E ch \in channels : ch.id = c
        IN  /\ resp'.status = "ok" => member
            /\ (exists /\ ~member) =>
                   (resp'.status = "NotChannelMember" /\ messages' = messages)
            /\ ~exists => (resp'.status = "ChannelNotFound" /\ messages' = messages)
      ]_vars

\* C16: deleteMessage on a direct message fails Unauthorized when the acting
\* user is the recipient or any user other than the sender, whatever channel
\* roles that user holds, and leaves the message in place; it succeeds when
\* the acting user is the sender.
C16_DirectMessageSenderOnly ==
    [][ resp'.op = "deleteMessage" =>
        \A m \in targetOf(messages, resp'.messageId) :
            m.channel_id = Null =>
                IF resp'.userId = m.sender_id
                THEN resp'.status = "true" /\ m \notin messages'
                ELSE /\ resp'.status = "Unauthorized"
                     /\ messages' = messages
                     /\ attachments' = attachments ]_vars

\* the recipient, owner of a channel, was refused
C16_Witness ==
    /\ resp.op = "deleteMessage" /\ resp.status = "Unauthorized"
    /\ resp.message \in messages
    /\ resp.message.channel_id = Null
    /\ resp.message.direct_message_recipient_id = resp.userId
    /\ \E row \in memberships : row.user_id = resp.userId /\ row.role = "owner"

\* C17: deleteMessage on another user's channel message fails Unauthorized
\* for a plain member and for a user with no membership in that channel,
\* leaving the message in place, and succeeds for a user whose membership in
\* that channel has role owner or admin.
C17_ChannelModeratorsDelete ==
    [][ resp'.op = "deleteMessage" =>
        \A m \in targetOf(messages, resp'.messageId) :
            (m.channel_id # Null /\ m.sender_id # resp'.userId) =>
                LET rows == rowsOf(memberships, m.channel_id, resp'.userId)
                IN  /\ (\A row \in rows : row.role = "member") =>
                           /\ resp'.status = "Unauthorized"
                           /\ messages' = messages
                           /\ attachments' = attachments
                    /\ (\E row \in rows : row.role \in {"owner", "admin"}) =>
                           resp'.status = "true" /\ m \notin messages' ]_vars

\* an admin deleted the owner's message
C17_Witness ==
    /\ resp.op = "deleteMessage" /\ resp.status = "true"
    /\ resp.message.sender_id # resp.userId
    /\ \E row \in rowsOf(memberships, resp.message.channel_id, resp.userId) :
           row.role = "admin"
    /\ \E row \in rowsOf(memberships, resp.message.channel_id, resp.message.sender_id) :
           row.role = "owner"

\* C18: a successful deleteMessage removes the message together with all of
\* its file attachments in one step: no file attachment references a message
\* id that no longer exists, and the attachments of the deleted id are none.
C18_NoOrphanAttachments ==
    /\ \A a \in attachments : \E m \in messages : m.id = a.message_id
    /\ (resp.op = "deleteMessage" /\ resp.status = "true") =>
           {a \in attachments : a.message_id = resp.messageId} = {}

\* a message went with its two attachments
C18_Witness ==
    /\ resp.op = "deleteMessage" /\ resp.status = "true"
    /\ resp.cascaded = 2
    /\ attachments = {}

\* C19: deleteMessage never returns false: an authorized call on an existing
\* message returns true, and a second delete of the same id, issued after
\* the first or overlapping it so that both pass the existence check before
\* either removes the row, fails MessageNotFound.
C19_DeleteNeverReturnsFalse ==
    \A p \in Requests :
        (req[p].op = "deleteMessage" /\ req[p].pc = "done") =>
            /\ req[p].status # "false"
            /\ req[p].status = "true" => req[p].hit = 1

\* C20: searchMessages(query, uid, channelId) returns an empty list, not an
\* error, whenever uid has no membership row in channelId at the time of the
\* call (never joined, or left), even if matching content exists there.
C20_SearchNeedsMembership ==
    [][ (/\ resp'.op = "searchMessages"
         /\ resp'.channelId # Null
         /\ rowsOf(memberships, resp'.channelId, resp'.userId) = {}) =>
            (resp'.status = "ok" /\ resp'.rows = <<>>) ]_vars

\* a former member searches the channel for the text of their own message
C20_Witness ==
    /\ resp.op = "searchMessages" /\ resp.rows = <<>>
    /\ resp.query = <<" ", "K">>
    /\ rowsOf(memberships, resp.channelId, resp.userId) = {}
    /\ \E m \in messages : /\ m.channel_id = resp.channelId
                          /\ m.sender_id = resp.userId
                          /\ m.content = <<"O", "k">>

\* ------------------------------------------- search over all conversations
\* searches with no channel id
SearchAllCall ==
    \E searchQuery \in Queries, userId \in UserIds : searchMessages(searchQuery, userId, Null)

\* channel messages and direct messages, searched across all conversations
NextSearch ==
    \/ RegisterUserCall
    \/ CreateChannelCall
    \/ JoinChannelAsMemberCall
    \/ SendMessageCall
    \/ SearchAllCall

SpecSearch == Init /\ [][NextSearch]_vars

\* message m is visible to user u: a message of a channel in which u has a
\* membership row, or a direct message u sent or received
visibleTo(mems, m, u) ==
    IF m.channel_id # Null
    THEN rowsOf(mems, m.channel_id, u) # {}
    ELSE m.sender_id = u \/ m.direct_message_recipient_id = u

\* C21: every message searchMessages(query, uid) returns without a channel id
\* is visible to uid (a message of a channel in which uid has a membership
\* row, or a direct message whose sender or recipient is uid), and the result
\* is the one the same search gives over the visible messages alone: it does
\* not depend on any message uid cannot see.
C21_SearchReturnsVisibleOnly ==
    [][ (resp'.op = "searchMessages" /\ resp'.channelId = Null) =>
        LET visible == {m \in messages : visibleTo(memberships, m, resp'.userId)}
        IN  /\ \A i \in DOMAIN resp'.rows : resp'.rows[i] \in visible
            /\ resp'.rows = searchResult(memberships, visible, resp'.query,
                                         resp'.userId, Null) ]_vars

\* a search found the user's own message while a matching message of a
\* channel the user is no member of, or of two other users, exists
C21_Witness ==
    /\ resp.op = "searchMessages" /\ resp.channelId = Null
    /\ resp.rows # <<>>
    /\ \E m \in messages : /\ ilike(m.content, resp.query)
                          /\ ~visibleTo(memberships, m, resp.userId)

\* ------------------------------------------------ the limits of the search
\* the numbers of matching channel messages and direct messages searched over
MaxChannelMatches == 26
MaxDirectMatches == 2

\* the tables after users 1 and 2 registered, user 1 created channel 1,
\* posted k messages to it and then sent d direct messages to user 2
InitSearchLimit ==
    \E k \in 0..MaxChannelMatches, d \in 0..MaxDirectMatches :
        /\ users = {1, 2}
        /\ userRows = {newUser(1, emailOf(1), DefaultPassword),
                       newUser(2, emailOf(2), DefaultPassword)}
        /\ channels = {newChannel(1, 1, FALSE)}
        /\ memberships = {newMembership(1, 1, 1, "owner", now(1))}
        /\ conversations = {}
        /\ messages = {newMessage(i, <<"O", "k">>, 1, 1, Null, Null, now(i)) : i \in 1..k}
                          \cup {newMessage(k + i, <<"O", "k">>, 1, Null, 2, Null, now(k + i)) :
                                    i \in 1..d}
        /\ attachments = {}
        /\ nextUserId = 3
        /\ nextChannelId = 2
        /\ nextMembershipId = 2
        /\ nextConversationId = 1
        /\ nextMessageId = k + d + 1
        /\ nextAttachmentId = 1
        /\ resp = [op |-> "none"]
        /\ req = [p \in Requests |-> Idle]

SpecSearchLimit == InitSearchLimit /\ [][SearchAllCall]_vars

\* C22: for a non-blank query, searchMessages without a channel id returns
\* the oldest min(50, N) of the N visible matching messages, oldest first;
\* when at most 50 visible messages match, all of them are returned however
\* they split between channels and direct messages.
C22_SearchReturnsOldestFifty ==
    [][ (/\ resp'.op = "searchMessages" /\ resp'.channelId = Null
         /\ trim(resp'.query) # <<>>) =>
        LET matches == {m \in messages : /\ visibleTo(memberships, m, resp'.userId)
                                         /\ ilike(m.content, resp'.query)}
            N == Cardinality(matches)
            rows == resp'.rows
            returned == {rows[i] : i \in DOMAIN rows}
        IN  /\ Len(rows) = IF N < 50 THEN N ELSE 50
            /\ Cardinality(returned) = Len(rows)
            /\ returned \subseteq matches
            /\ \A i, j \in DOMAIN rows : i < j => rows[i].created_at <= rows[j].created_at
            /\ \A m \in matches \ returned :
                   \A i \in DOMAIN rows : rows[i].created_at <= m.created_at ]_vars

\* ------------------------------------------------------------------ login
\* the number of writes of one user row after its insert
MaxUpdates == 2

\* db.update(usersTable).set({ status: 'online', updated_at: new Date() })
\*   .where(eq(usersTable.id, id)): new Date() is later than the time stored
updateStatusOnline(rows, id) ==
    {IF r.id = id THEN [r EXCEPT !.status = "online", !.updated_at = r.updated_at + 1]
     ELSE r : r \in rows}

\* loginUser(input): resp.status is "ok" or the error thrown, resp.id the id
\* of the user returned
loginUser(email, password) ==
    LET existingUsers == selectUserByEmail(userRows, email)
        answer(e, id) == resp' = [op |-> "loginUser", email |-> email,
                                  password |-> password, status |-> e, id |-> id]
        fail(e) == /\ answer(e, 0)
                   /\ UNCHANGED <<tables, sequences, req, messageTables, userRows>>
    IN  IF existingUsers = {} THEN fail("InvalidCredentials")
        ELSE \E user \in existingUsers :
             IF password = "" THEN fail("InvalidCredentials")
             ELSE /\ user.updated_at < MaxUpdates
                  /\ userRows' = updateStatusOnline(userRows, user.id)
                  /\ answer("ok", user.id)
                  /\ UNCHANGED <<tables, sequences, req, messageTables>>

\* loginUserInputSchema.password: z.string(), the empty string included
LoginPasswords == RegisterPasswords \cup {""}

\* registrations under any address and password
RegisterAnyUserCall ==
    \E n \in UserIds, password \in RegisterPasswords : registerUser(emailOf(n), password)
\* logins under a registered or an unknown address
LoginUserCall ==
    \E n \in 0..MaxUsers, password \in LoginPasswords : loginUser(emailOf(n), password)

NextLogin ==
    \/ RegisterAnyUserCall
    \/ LoginUserCall

SpecLogin == Init /\ [][NextLogin]_vars

\* C23: loginUser fails InvalidCredentials both when no user has the email
\* and when the password does not match the stored hash; a failed login
\* leaves every user row (status and updated_at) unchanged; only a login
\* with matching credentials sets the status to online.
C23_LoginNeedsMatchingPassword ==
    [][ resp'.op = "loginUser" =>
        LET matching == {r \in userRows : /\ r.email = resp'.email
                                          /\ r.password_hash = hashPassword(resp'.password)}
        IN  IF matching = {}
            THEN resp'.status = "InvalidCredentials" /\ userRows' = userRows
            ELSE /\ resp'.status = "ok"
                 /\ \A r \in userRows' : r.id = resp'.id => r.status = "online"
      ]_vars

\* ------------------------------------------------------------ getMessages
\* undefined, where the code tells an absent field from a null one
Undefined == -2

\* input.page || 1 and input.limit || 50
DefaultPage == 1
DefaultPageSize == 50
orDefault(x, d) == IF x = Undefined \/ x = 0 THEN d ELSE x

\* the condition getMessages pushes for one optional field on column value v:
\* none if the field is undefined, IS NULL if it is null, equality otherwise
columnCondition(field, v) ==
    IF field = Undefined THEN TRUE
    ELSE IF field = Null THEN v = Null
    ELSE v = field

\* .orderBy(desc(messagesTable.created_at)): the rows as a list, newest first
RECURSIVE orderByCreatedAtDesc(_)
orderByCreatedAtDesc(rows) ==
    IF rows = {} THEN <<>>
    ELSE LET first == CHOOSE m \in rows : \A n \in rows : m.created_at >= n.created_at
         IN  <<first>> \o orderByCreatedAtDesc(rows \ {first})

\* .limit(n).offset(k)
limitOffset(list, n, k) ==
    SubSeq(list, k + 1, IF Len(list) < k + n THEN Len(list) ELSE k + n)

\* getMessages(input): reads, writes nothing; resp.status is "ok" or the
\* error thrown
getMessages(c, r, page, pageSize) ==
    LET offset == (orDefault(page, DefaultPage) - 1) * orDefault(pageSize, DefaultPageSize)
        results == {m \in messages :
                       /\ columnCondition(c, m.channel_id)
                       /\ columnCondition(r, m.direct_message_recipient_id)}
        answer(e, rows) ==
            resp' = [op |-> "getMessages", channel_id |-> c,
                     direct_message_recipient_id |-> r, page |-> page,
                     limit |-> pageSize, status |-> e, rows |-> rows]
    IN  /\ IF c # Undefined /\ r # Undefined
           THEN answer("AmbiguousDestination", <<>>)
           ELSE answer("ok", limitOffset(orderByCreatedAtDesc(results),
                                         orDefault(pageSize, DefaultPageSize), offset))
        /\ UNCHANGED <<tables, sequences, req, messageTables, userRows>>

\* getMessagesInputSchema: the two ids are z.number().nullable().optional(),
\* page and limit are positive integers or absent
GetMessagesCall ==
    \E c \in {Undefined, Null} \cup ChannelIds, r \in {Undefined, Null} \cup UserIds,
       page \in {Undefined, 2}, pageSize \in {Undefined, 1} :
        getMessages(c, r, page, pageSize)

\* channel messages and direct messages, read page by page
NextGetMessages ==
    \/ RegisterUserCall
    \/ CreateChannelCall
    \/ SendMessageCall
    \/ GetMessagesCall

SpecGetMessages == Init /\ [][NextGetMessages]_vars

\* C24: getMessages fails AmbiguousDestination exactly when channel_id and
\* direct_message_recipient_id are both non-null: a request in which at least
\* one of the two is null or absent does not fail, and returns messages that
\* match the fields given, newest first.
C24_AmbiguousOnlyWhenBothNonNull ==
    [][ resp'.op = "getMessages" =>
        LET c == resp'.channel_id
            r == resp'.direct_message_recipient_id
            rows == resp'.rows
        IN  IF c \notin {Undefined, Null} /\ r \notin {Undefined, Null}
            THEN resp'.status = "AmbiguousDestination"
            ELSE /\ resp'.status = "ok"
                 /\ \A i \in DOMAIN rows :
                        /\ rows[i] \in messages
                        /\ c \notin {Undefined, Null} => rows[i].channel_id = c
                        /\ r \notin {Undefined, Null} =>
                               rows[i].direct_message_recipient_id = r
                 /\ \A i, j \in DOMAIN rows :
                        i < j => rows[i].created_at >= rows[j].created_at ]_vars

\* ------------------------------------------------------ lists of channels
\* the channels of the specifications with more than one channel
MaxChannelsMany == 2
ManyChannelIds == 1..MaxChannelsMany

\* db.select().from(channelsTable).where(eq(channelsTable.is_private, false))
selectPublicChannels(chs) == {c \in chs : ~c.is_private}

\* memberships.map(m => m.channel_id) of the membership select by user_id
memberChannelIds(mems, userId) == {m.channel_id : m \in {x \in mems : x.user_id = userId}}

\* mutant: the private channels are not filtered by membership
selectPrivateChannels_NoMembership(chs, channelIds) == {c \in chs : c.is_private}

\* where(and(eq(is_private, true), inArray(id, memberChannelIds))), run only
\* for a non-empty list of ids
selectPrivateChannels(chs, channelIds) == {c \in chs : c.is_private /\ c.id \in channelIds}

\* the rows of a select as a list: the selects have no ORDER BY, the list is
\* kept in the order of the ids
RECURSIVE rowList(_)
rowList(rows) ==
    IF rows = {} THEN <<>>
    ELSE LET first == CHOOSE c \in rows : \A d \in rows : c.id <= d.id
         IN  <<first>> \o rowList(rows \ {first})

\* z.boolean().optional(): "undefined" is the absent field
OptionalBooleans == {"true", "false", "undefined"}

\* getChannels(input): reads, writes nothing
getChannels(userId, includePrivate) ==
    /\ resp' = [op |-> "getChannels", user_id |-> userId,
                include_private |-> includePrivate, status |-> "ok",
                rows |-> IF userId # Undefined /\ includePrivate = "true"
                         THEN rowList(selectPublicChannels(channels)) \o
                              rowList(selectPrivateChannels(
                                          channels, memberChannelIds(memberships, userId)))
                         ELSE rowList(selectPublicChannels(channels))]
    /\ UNCHANGED <<tables, sequences, req, messageTables, userRows>>

\* db.update(channelsTable).set(updateData).where(eq(channelsTable.id, id)):
\* is_private is set unless the field is absent (name, description and
\* updated_at are read by no handler modelled here)
updateChannelRow(chs, id, isPrivate) ==
    {IF c.id = id /\ isPrivate # "undefined"
     THEN [c EXCEPT !.is_private = (isPrivate = "true")]
     ELSE c : c \in chs}

\* updateChannel(input)
updateChannel(id, isPrivate) ==
    /\ channels' = updateChannelRow(channels, id, isPrivate)
    /\ resp' = [op |-> "updateChannel", id |-> id, is_private |-> isPrivate,
                status |-> IF selectChannel(channels, id) = {} THEN "ChannelNotFound"
                           ELSE "ok"]
    /\ UNCHANGED <<users, memberships, conversations, sequences, req, messageTables,
                   userRows>>

\* requests for public and private channels, up to MaxChannelsMany of them
CreateAnyChannelCall ==
    \E u \in UserIds, isPrivate \in BOOLEAN :
        withinChannels(MaxChannelsMany, u) /\ createChannel(u, isPrivate)
JoinAnyChannelCall ==
    \E c \in ManyChannelIds, u \in UserIds, r \in RoleInputs \ {"owner"} :
        joinChannel(c, u, r)
LeaveAnyChannelCall == \E c \in ManyChannelIds, u \in UserIds : leaveChannel(c, u)
UpdateChannelCall ==
    \E c \in ManyChannelIds, isPrivate \in OptionalBooleans :
        updateChannel(c, isPrivate)
\* getChannelsInputSchema: user_id and include_private are optional
GetChannelsCall ==
    \E userId \in UserIds \cup {Undefined}, includePrivate \in OptionalBooleans :
        getChannels(userId, includePrivate)

NextChannels ==
    \/ RegisterUserCall
    \/ CreateAnyChannelCall
    \/ JoinAnyChannelCall
    \/ LeaveAnyChannelCall
    \/ UpdateChannelCall
    \/ GetChannelsCall

SpecChannels == Init /\ [][NextChannels]_vars

\* C25: getChannels returns a private channel only when a user_id is given,
\* include_private is true and that user has a membership row in the
\* channel; otherwise it returns public channels only; no channel appears
\* more than once in a result.
C25_PrivateChannelsNeedMembership ==
    [][ resp'.op = "getChannels" =>
        LET rows == resp'.rows
        IN  /\ \A i \in DOMAIN rows :
                   /\ rows[i] \in channels
                   /\ rows[i].is_private =>
                          /\ resp'.user_id # Undefined
                          /\ resp'.include_private = "true"
                          /\ rowsOf(memberships, rows[i].id, resp'.user_id) # {}
            /\ \A i, j \in DOMAIN rows : i # j => rows[i].id # rows[j].id ]_vars

\* a member was shown their private channel and not the private channel of
\* another user
C25_Witness ==
    /\ resp.op = "getChannels"
    /\ \E i \in DOMAIN resp.rows :
           resp.rows[i].is_private /\ resp.rows[i] \in channels
    /\ \E c \in channels :
           /\ c.is_private
           /\ rowsOf(memberships, c.id, resp.user_id) = {}
           /\ \A i \in DOMAIN resp.rows : resp.rows[i].id # c.id

\* ------------------------------------------- what goes with a channel
\* requests with one destination, a channel or a user, that are no reply
SendAnyMessageCall ==
    \E content \in Contents, c \in ManyChannelIds \cup {Null}, r \in UserIds \cup {Null},
       senderId \in UserIds :
        /\ (c = Null) # (r = Null)
        /\ createMessage(content, c, r, Null, senderId)

\* requests for public channels, up to MaxChannelsMany of them
CreatePublicChannelCall ==
    \E u \in UserIds : withinChannels(MaxChannelsMany, u) /\ createChannel(u, FALSE)

\* channels with messages and attachments, left by their owners
NextLeaveCascade ==
    \/ RegisterUserCall
    \/ CreatePublicChannelCall
    \/ SendAnyMessageCall
    \/ CreateFileAttachmentCall
    \/ LeaveAnyChannelCall

SpecLeaveCascade == Init /\ [][NextLeaveCascade]_vars

\* C26: when leaveChannel deletes a channel, every message of that channel
\* and every attachment of those messages is removed with it, while the
\* direct messages, and the channel rows, memberships, messages and
\* attachments of every other channel, are unchanged.
C26_ChannelDeleteCascades ==
    [][ (resp'.op = "leaveChannel" /\ resp'.path = "channel_deleted") =>
        LET c == resp'.channel_id
        IN  /\ channels' = {x \in channels : x.id # c}
            /\ memberships' = {x \in memberships : x.channel_id # c}
            /\ messages' = {m \in messages : m.channel_id # c}
            /\ attachments' = {a \in attachments :
                                  \E m \in messages : m.id = a.message_id /\ m.channel_id # c}
            /\ UNCHANGED <<users, userRows, conversations>> ]_vars

\* a channel went with its message and the attachment of that message; the
\* other message, with its attachment, and the other channel are in place
C26_Witness ==
    /\ resp.op = "leaveChannel" /\ resp.path = "channel_deleted"
    /\ nextMessageId = 3 /\ nextAttachmentId = 3
    /\ Cardinality(messages) = 1 /\ Cardinality(attachments) = 1
    /\ \A a \in attachments : \E m \in messages : m.id = a.message_id
    /\ Cardinality(channels) = 1
    /\ \E x \in memberships : x.channel_id # resp.channel_id

\* C27: leaveChannel by a member whose role is admin or member deletes
\* exactly that user's one membership row of the channel: the channel still
\* exists, its owner is the same as before, and no other row of any table is
\* removed or changed.
C27_NonOwnerLeaveDeletesOneRow ==
    [][ (/\ resp'.op = "leaveChannel"
         /\ \E row \in rowsOf(memberships, resp'.channel_id, resp'.user_id) :
                row.role # "owner") =>
        LET c == resp'.channel_id
            own == rowsOf(memberships, c, resp'.user_id)
        IN  /\ resp'.status = "ok"
            /\ Cardinality(own) = 1
            /\ memberships' = memberships \ own
            /\ channels' = channels
            /\ \E x \in channels' : x.id = c
            /\ ownersOf(memberships', c) = ownersOf(memberships, c)
            /\ UNCHANGED <<users, userRows, conversations, messages, attachments>> ]_vars

\* an admin left a channel that keeps its owner and another member
C27_Witness ==
    /\ resp.op = "leaveChannel" /\ resp.path = "member_left"
    /\ rowsOf(memberships, resp.channel_id, resp.user_id) = {}
    /\ Cardinality(ownersOf(memberships, resp.channel_id)) = 1
    /\ Cardinality(membersOf(memberships, resp.channel_id)) = 2
    /\ \E x \in channels : x.id = resp.channel_id

\* ---------------------------------------------------------------- replies
\* requests with one destination, a channel or a user, replies included
SendOrReplyCall ==
    \E content \in Contents, c \in ChannelIds \cup {Null}, r \in UserIds \cup {Null},
       reply \in MessageIds \cup {Null}, senderId \in UserIds :
        /\ (c = Null) # (r = Null)
        /\ createMessage(content, c, r, reply, senderId)

\* messages and replies, deleted one by one or with their channel
NextReplies ==
    \/ RegisterUserCall
    \/ CreateChannelCall
    \/ SendOrReplyCall
    \/ DeleteMessageCall
    \/ LeaveChannelCall

SpecReplies == Init /\ [][NextReplies]_vars

\* C28: in every state reached through createMessage, deleteMessage and
\* leaveChannel, each message whose reply_to_message_id is not null refers
\* to a message that exists.
C28_ReplyTargetsExist ==
    \A m \in messages :
        m.reply_to_message_id # Null =>
            \E original \in messages : original.id = m.reply_to_message_id

\* ------------------------------------------------ leaves against joins
\* leaveChannel and joinChannel statement by statement
NextLeaveJoin ==
    \/ RegisterUserCall
    \/ CreateChannelCall
    \/ \E p \in Requests : JoinSelectChannel(p)
    \/ \E p \in Requests : JoinSelectUser(p)
    \/ \E p \in Requests : JoinSelectMembership(p)
    \/ \E p \in Requests : JoinInsertMembership(p)
    \/ \E p \in Requests : LeaveSelectMembership(p)
    \/ \E p \in Requests : LeaveSelectMembers(p)
    \/ \E p \in Requests : LeaveUpdateOwner(p)
    \/ \E p \in Requests : LeaveDeleteChannel(p)
    \/ \E p \in Requests : LeaveDeleteMembership(p)
    \/ \E p \in Requests : Return(p)

SpecLeaveJoin == Init /\ [][NextLeaveJoin]_vars

\* C29: when the leaveChannel of an owner who is the only member runs
\* interleaved with another user's joinChannel on the channel, the channel
\* is never deleted while it has a membership row of another user: the row
\* a joinChannel inserted is not cascaded away by the leave.
C29_LeaveNeverDeletesJoinedChannel ==
    [][ \A p \in Requests :
            (/\ req[p].op = "leaveChannel" /\ req[p].pc = "delete_channel"
             /\ req'[p].pc = "done") =>
                \A m \in membersOf(memberships, req[p].channel_id) :
                    m.user_id = req[p].user_id ]_vars

\* ------------------------------------------- authority after a succession
\* requests that name a channel and nothing else
PostToAnyChannelCall ==
    \E content \in Contents, c \in ManyChannelIds, senderId \in UserIds :
        createMessage(content, c, Null, Null, senderId)

\* channel messages deleted while owners leave and members are promoted
NextAuthority ==
    \/ RegisterUserCall
    \/ CreatePublicChannelCall
    \/ JoinAnyChannelCall
    \/ LeaveAnyChannelCall
    \/ PostToAnyChannelCall
    \/ DeleteMessageCall

SpecAuthority == Init /\ [][NextAuthority]_vars

\* the creator of channel c, its first owner, holds no row in it any more
formerOwner(chs, mems, c, u) ==
    /\ \E x \in chs : x.id = c /\ x.created_by = u
    /\ rowsOf(mems, c, u) = {}

\* u owns channel c without having created it: u was promoted by a leave
promotedOwner(chs, mems, c, u) ==
    /\ \E x \in chs : x.id = c /\ x.created_by # u
    /\ \E row \in rowsOf(mems, c, u) : row.role = "owner"

\* u has no row in channel c and is owner or admin of another channel
moderatorElsewhere(mems, c, u) ==
    /\ rowsOf(mems, c, u) = {}
    /\ \E row \in mems : /\ row.user_id = u /\ row.channel_id # c
                          /\ row.role \in {"owner", "admin"}

\* C30: the authority to delete another user's channel message follows the
\* acting user's current role in the message's own channel: once the owner
\* has left through leaveChannel, the former owner's deleteMessage on
\* another user's message of that channel fails Unauthorized and leaves the
\* message, the promoted successor's succeeds, and a user who is owner or
\* admin of a different channel only is refused.
C30_AuthorityFollowsCurrentRole ==
    [][ resp'.op = "deleteMessage" =>
        \A m \in targetOf(messages, resp'.messageId) :
            (m.channel_id # Null /\ m.sender_id # resp'.userId) =>
                LET c == m.channel_id
                    u == resp'.userId
                    refused == resp'.status = "Unauthorized" /\ messages' = messages
                IN  /\ formerOwner(channels, memberships, c, u) => refused
                    /\ moderatorElsewhere(memberships, c, u) => refused
                    /\ promotedOwner(channels, memberships, c, u) =>
                           resp'.status = "true" /\ m \notin messages' ]_vars

\* the promoted successor deleted a message of the former owner
C30_Witness ==
    /\ resp.op = "deleteMessage" /\ resp.status = "true"
    /\ resp.message.sender_id # resp.userId
    /\ resp.message \notin messages
    /\ promotedOwner(channels, memberships, resp.message.channel_id, resp.userId)
    /\ formerOwner(channels, memberships, resp.message.channel_id, resp.message.sender_id)

====
